---- MODULE Spec2Model ----
(***************************************************************************)
(* A model of punctuator/models.py: the weight initializers, the GRU       *)
(* model's construction and parameter list, the two persistence formats    *)
(* (pickle blob and zip container) and the encoder/decoder scan schedule.  *)
(*                                                                         *)
(* Python values are records [kind, val]; tensors are records              *)
(* [shape, elems] with elems the row-major flattening.  Tensor elements    *)
(* are counted in tenths, so that the 0.1 of the END embedding row is 1.   *)
(***************************************************************************)
EXTENDS Integers, Sequences, FiniteSets, TLC

VARIABLES
    net,        \* the live model built by the training collaborator, or NoModel
    loaded,     \* the model returned by the last load / loads / load_zip, or NoModel
    file,       \* what is stored at the model path: NoFile, a pickle blob or a zip archive
    rng,        \* the process-wide generator np.random (stream position)
    We_pcl,     \* the pretrained-embedding file "We.pcl": NoFile or a list of rows
    result,     \* outcome of the last operation: [op, err, key]
    updates,    \* number of training updates applied to net
    foreign,    \* TRUE when the stored file was not written as it stands by save / save_zip
    saved,      \* parameter values of net when the file was last written by save / save_zip
    W_call,     \* last initializer call: [fn, i, o, keepdims, const, out]
    seq_x,      \* input token sequence of the forward computation
    pc,         \* position of the forward computation: "idle", "encode", "decode", "done"
    h_f_t,      \* outputs of the encoder scan, forward cell
    h_b_t,      \* outputs of the encoder scan, backward cell
    context,    \* the concatenated context sequence
    h_dec,      \* decoder hidden carried between decode steps
    trace       \* one record per decode step performed

persist_vars == <<net, loaded, file, rng, We_pcl, result, updates, foreign, saved>>
init_vars    == <<W_call>>
fwd_vars     == <<seq_x, pc, h_f_t, h_b_t, context, h_dec, trace>>
vars == <<net, loaded, file, rng, We_pcl, result, updates, foreign, saved,
          W_call, seq_x, pc, h_f_t, h_b_t, context, h_dec, trace>>

(***************************************************************************)
(* Bounds                                                                  *)
(***************************************************************************)
MaxFan     == 3      \* largest fan-in / fan-out tried on the initializers
RngMod     == 3      \* period of the modelled generator stream
MaxUpdates == 1      \* training updates applied to the live model
MaxT       == 4      \* longest input sequence of the forward computation

(***************************************************************************)
(* Python values                                                           *)
(***************************************************************************)
None        == [kind |-> "None", val |-> 0]
PyInt(n)    == [kind |-> "int", val |-> n]
PyFloat(n)  == [kind |-> "float", val |-> n]
PyStr(s)    == [kind |-> "str", val |-> s]
PyList(s)   == [kind |-> "list", val |-> s]
PyTuple(s)  == [kind |-> "tuple", val |-> s]
PyDict(s)   == [kind |-> "dict", val |-> s]
NdArray(t)  == [kind |-> "ndarray", val |-> t]

\* Python truthiness, as used by `not v`, `if v` and `v and ...`
Truthy(v) ==
    CASE v.kind = "None" -> FALSE
      [] v.kind \in {"int", "float"} -> v.val # 0
      [] v.kind = "str" -> v.val # ""
      [] v.kind \in {"list", "tuple", "dict"} -> Len(v.val) > 0
      [] OTHER -> TRUE

NoModel == [cls |-> "none"]
NoFile  == [fmt |-> "none"]

(***************************************************************************)
(* Tensors and the weight initializers                                     *)
(***************************************************************************)
Max(a, b) == IF a >= b THEN a ELSE b

RECURSIVE Prod(_)
Prod(shape) == IF Len(shape) = 0 THEN 1 ELSE Head(shape) * Prod(Tail(shape))

_get_shape(i, o, keepdims) ==
    IF (i = 1 \/ o = 1) /\ ~keepdims THEN <<Max(i, o)>> ELSE <<i, o>>

\* np.ones(shape) * const
np_ones(shape, const) ==
    [shape |-> shape, elems |-> [k \in 1..Prod(shape) |-> const]]

\* np.eye(N) is N x N; np.eye(N, M) is N x M; ones on the leading diagonal
np_eye(args, const) ==
    LET N == args[1]
        M == IF Len(args) = 1 THEN args[1] ELSE args[2]
    IN  [shape |-> <<N, M>>,
         elems |-> [k \in 1..(N * M) |->
                       IF (k - 1) \div M = (k - 1) % M THEN const ELSE 0]]

\* The variate at stream position r (never 0, the value of the constant fills)
Sample(r) == 1 + (r % RngMod)

\* rng.uniform(low=-d, high=d, size=shape): consecutive variates of the stream.
\* The half-width d = sqrt(6 / (i + o)), times 4 for a logistic sigmoid, scales
\* every element alike and is fixed by (i, o); an element is kept as the
\* variate it was drawn from.
rng_uniform(r, shape) ==
    [shape |-> shape, elems |-> [k \in 1..Prod(shape) |-> Sample(r + k - 1)]]

\* the generator after rng.uniform(size=shape)
rng_after(r, shape) == (r + Prod(shape)) % RngMod

\* aesara.shared(value=..., name=...)
shared(value, name) == [name |-> name, value |-> value]

weights_const(i, o, name, const, keepdims) ==
    shared(np_ones(_get_shape(i, o, keepdims), const), name)

weights_identity(i, o, name, const, keepdims) ==
    shared(np_eye(_get_shape(i, o, keepdims), const), name)

weights_Glorot(i, o, name, r, keepdims) ==
    shared(rng_uniform(r, _get_shape(i, o, keepdims)), name)

Glorot_rng(i, o, r, keepdims) == rng_after(r, _get_shape(i, o, keepdims))

(***************************************************************************)
(* GRULayer.__init__                                                       *)
(***************************************************************************)
CellAttrs == {"h0", "W_x", "W_h", "b", "W_x_h", "W_h_h", "b_h"}

GRULayer_params == <<"W_x", "W_h", "b", "W_x_h", "W_h_h", "b_h">>

\* number of variates weights_Glorot(i, o, ...) draws
Glorot_draws(i, o) == Prod(_get_shape(i, o, FALSE))

\* number of variates one cell draws: W_x, W_h, W_x_h, W_h_h
GRULayer_draws(n_in, n_out) ==
    Glorot_draws(n_in, n_out * 2) + Glorot_draws(n_out, n_out * 2)
        + Glorot_draws(n_in, n_out) + Glorot_draws(n_out, n_out)

\* the six parameters and h0 of one cell built with the generator at r; the
\* draws are made in the order W_x, W_h, W_x_h, W_h_h
GRULayer(r, n_in, n_out, minibatch_size) ==
    [h0    |-> shared(np_ones(<<minibatch_size, n_out>>, 0), "h0"),
     W_x   |-> weights_Glorot(n_in, n_out * 2, "W_x", r, FALSE),
     W_h   |-> weights_Glorot(n_out, n_out * 2, "W_h",
                              r + Glorot_draws(n_in, n_out * 2), FALSE),
     b     |-> weights_const(1, n_out * 2, "b", 0, FALSE),
     W_x_h |-> weights_Glorot(n_in, n_out, "W_x_h",
                              r + Glorot_draws(n_in, n_out * 2)
                                + Glorot_draws(n_out, n_out * 2), FALSE),
     W_h_h |-> weights_Glorot(n_out, n_out, "W_h_h",
                              r + Glorot_draws(n_in, n_out * 2)
                                + Glorot_draws(n_out, n_out * 2)
                                + Glorot_draws(n_in, n_out), FALSE),
     b_h   |-> weights_const(1, n_out, "b_h", 0, FALSE),
     params |-> GRULayer_params]

(***************************************************************************)
(* GRU.__init__                                                            *)
(* A model is [cls, n_hidden, x_vocabulary, y_vocabulary, vars, params]:   *)
(* vars is the store of shared variables, keyed by <<owner, attribute>>,   *)
(* and params is the list of references self.params.                       *)
(***************************************************************************)
SelfAttrs == {"We", "Wy", "by", "Wa_h", "Wa_c", "ba", "Wa_y",
              "Wf_h", "Wf_c", "Wf_f", "bf"}

Refs == ({"self"} \X SelfAttrs) \cup ({"GRU", "GRU_f", "GRU_b"} \X CellAttrs)

\* [("owner", a) for a in cell.params]
CellRefs(owner, cell_params) ==
    [k \in 1..Len(cell_params) |-> <<owner, cell_params[k]>>]

\* the encoder cells listed before the decoder cell
GRU_params_encoders_first(dec_params, fwd_params, bwd_params) ==
    << <<"self", "We">>, <<"self", "Wy">>, <<"self", "by">>, <<"self", "Wa_h">>,
       <<"self", "Wa_c">>, <<"self", "ba">>, <<"self", "Wa_y">>, <<"self", "Wf_h">>,
       <<"self", "Wf_c">>, <<"self", "Wf_f">>, <<"self", "bf">> >>
    \o CellRefs("GRU_f", fwd_params) \o CellRefs("GRU_b", bwd_params)
    \o CellRefs("GRU", dec_params)

\* self.params = [...]; self.params += self.GRU.params + self.GRU_f.params + self.GRU_b.params
GRU_params(dec_params, fwd_params, bwd_params) ==
    << <<"self", "We">>, <<"self", "Wy">>, <<"self", "by">>, <<"self", "Wa_h">>,
       <<"self", "Wa_c">>, <<"self", "ba">>, <<"self", "Wa_y">>, <<"self", "Wf_h">>,
       <<"self", "Wf_c">>, <<"self", "Wf_f">>, <<"self", "bf">> >>
    \o CellRefs("GRU", dec_params) \o CellRefs("GRU_f", fwd_params)
    \o CellRefs("GRU_b", bwd_params)

\* a precondition that forgets the auxiliary argument
GRU_precondition_stage1_only(stage1_model_file_name, p) ==
    ~Truthy(stage1_model_file_name)

\* the precondition asserted on entry
GRU_precondition(stage1_model_file_name, p) ==
    ~Truthy(stage1_model_file_name) /\ ~Truthy(p)

EndFill == 1   \* the 0.1 of the END row, in tenths

\* rows of the pretrained table followed by the END and UNK rows, as one array
PretrainedWe(rows) ==
    LET n_emb == Len(rows[1])
        all == rows \o << [k \in 1..n_emb |-> EndFill], [k \in 1..n_emb |-> 0] >>
    IN  [shape |-> <<Len(all), n_emb>>,
         elems |-> [k \in 1..(Len(all) * n_emb) |->
                       all[((k - 1) \div n_emb) + 1][((k - 1) % n_emb) + 1]]]

GRU(r, minibatch_size, n_hidden, x_vocabulary, y_vocabulary, stage1_model_file_name, p, pretrained) ==
    IF ~GRU_precondition(stage1_model_file_name, p)
    THEN [err |-> "AssertionError", net |-> NoModel, rng |-> r]
    ELSE
    LET x_vocabulary_size == Len(x_vocabulary.val)
        y_vocabulary_size == Len(y_vocabulary.val)
        found == pretrained # NoFile
        n_emb == IF found THEN Len(pretrained.rows[1]) ELSE n_hidden
        n_attention == n_hidden * 2
        \* generator positions, in creation order: We, GRU_f, GRU_b, GRU,
        \* Wa_h, Wa_c, Wa_y
        r_f == r + (IF found THEN 0 ELSE Glorot_draws(x_vocabulary_size, n_emb))
        r_b == r_f + GRULayer_draws(n_emb, n_hidden)
        r_d == r_f + 2 * GRULayer_draws(n_emb, n_hidden)
        r_h == r_f + 2 * GRULayer_draws(n_emb, n_hidden)
                   + GRULayer_draws(n_hidden * 2, n_hidden)
        top(a) ==
            CASE a = "We" -> IF found THEN shared(PretrainedWe(pretrained.rows), "We")
                             ELSE weights_Glorot(x_vocabulary_size, n_emb, "We", r, FALSE)
              [] a = "Wy" -> weights_const(n_hidden, y_vocabulary_size, "Wy", 0, FALSE)
              [] a = "by" -> weights_const(1, y_vocabulary_size, "by", 0, FALSE)
              [] a = "Wa_h" -> weights_Glorot(n_hidden, n_attention, "Wa_h", r_h, FALSE)
              [] a = "Wa_c" -> weights_Glorot(n_attention, n_attention, "Wa_c",
                                  r_h + Glorot_draws(n_hidden, n_attention), FALSE)
              [] a = "ba" -> weights_const(1, n_attention, "ba", 0, FALSE)
              [] a = "Wa_y" -> weights_Glorot(n_attention, 1, "Wa_y",
                                  r_h + Glorot_draws(n_hidden, n_attention)
                                      + Glorot_draws(n_attention, n_attention), FALSE)
              [] a = "Wf_h" -> weights_const(n_hidden, n_hidden, "Wf_h", 0, FALSE)
              [] a = "Wf_c" -> weights_const(n_attention, n_hidden, "Wf_c", 0, FALSE)
              [] a = "Wf_f" -> weights_const(n_hidden, n_hidden, "Wf_f", 0, FALSE)
              [] a = "bf" -> weights_const(1, n_hidden, "by", 0, FALSE)
        cell(owner) ==
            CASE owner = "GRU_f" -> GRULayer(r_f, n_emb, n_hidden, minibatch_size)
              [] owner = "GRU_b" -> GRULayer(r_b, n_emb, n_hidden, minibatch_size)
              [] owner = "GRU"   -> GRULayer(r_d, n_hidden * 2, n_hidden, minibatch_size)
    IN  [err |-> "none",
         net |-> [cls |-> "GRU",
                  n_hidden |-> n_hidden,
                  x_vocabulary |-> x_vocabulary,
                  y_vocabulary |-> y_vocabulary,
                  vars |-> [ref \in Refs |->
                              IF ref[1] = "self" THEN top(ref[2])
                              ELSE cell(ref[1])[ref[2]]],
                  params |-> GRU_params(GRULayer_params, GRULayer_params,
                                        GRULayer_params)],
         rng |-> (r_h + Glorot_draws(n_hidden, n_attention)
                      + Glorot_draws(n_attention, n_attention)
                      + Glorot_draws(n_attention, 1)) % RngMod]

\* [p.get_value(borrow=True) for p in self.params]
get_values(m) == [k \in 1..Len(m.params) |-> m.vars[m.params[k]].value]

(***************************************************************************)
(* ModelState, as built by save and save_zip                               *)
(***************************************************************************)
\* the keys of the state dict, in insertion order
StateKeys == <<"type", "n_hidden", "x_vocabulary", "y_vocabulary",
               "stage1_model_file_name", "params", "gsums", "learning_rate",
               "validation_ppl_history", "epoch", "random_state">>

KeySet == {StateKeys[j] : j \in 1..Len(StateKeys)}

\* np.random.get_state(): ('MT19937', key array, ...); the key array holds the position
get_state(r) ==
    PyTuple(<<PyStr("MT19937"), NdArray([shape |-> <<1>>, elems |-> <<r>>])>>)

\* the same state with its array turned into a plain list by the caller
get_state_as_lists(r) ==
    PyList(<<PyStr("MT19937"), PyList(<<PyInt(r)>>)>>)

\* rng.set_state(state): a tuple or list headed by the generator name, else TypeError
set_state_ok(state) ==
    /\ state.kind \in {"tuple", "list"}
    /\ Len(state.val) = 2
    /\ state.val[1] = PyStr("MT19937")
    /\ state.val[2].kind \in {"ndarray", "list"}

set_state(state) ==
    IF state.val[2].kind = "ndarray" THEN state.val[2].val.elems[1]
    ELSE state.val[2].val[1].val

\* the dict literal of save / save_zip (best_validation_ppl is accepted and dropped)
make_state(m, gsums, learning_rate, validation_ppl_history, epoch, random_state) ==
    [k \in KeySet |->
        CASE k = "type" -> PyStr(m.cls)
          [] k = "n_hidden" -> PyInt(m.n_hidden)
          [] k = "x_vocabulary" -> m.x_vocabulary
          [] k = "y_vocabulary" -> m.y_vocabulary
          [] k = "stage1_model_file_name" -> None
          [] k = "params" ->
                PyList([j \in 1..Len(m.params) |-> NdArray(get_values(m)[j])])
          [] k = "gsums" ->
                IF Truthy(gsums)
                THEN PyList([j \in 1..Len(gsums.val) |-> NdArray(gsums.val[j].value)])
                ELSE None
          [] k = "learning_rate" -> learning_rate
          [] k = "validation_ppl_history" -> validation_ppl_history
          [] k = "epoch" -> epoch
          [] k = "random_state" -> random_state]

(***************************************************************************)
(* json.dumps / json.load                                                  *)
(* A JSON text is modelled by the value it denotes: null, int, float,      *)
(* string, array, object; an entry left empty denotes nothing.             *)
(***************************************************************************)
RECURSIVE json_serializable(_)
json_serializable(v) ==
    CASE v.kind \in {"None", "int", "float", "str", "dict"} -> TRUE
      [] v.kind \in {"list", "tuple"} ->
            \A j \in 1..Len(v.val) : json_serializable(v.val[j])
      [] OTHER -> FALSE

RECURSIVE json_dumps(_)
json_dumps(v) ==
    CASE v.kind = "None"  -> [kind |-> "null", val |-> 0]
      [] v.kind = "int"   -> [kind |-> "int", val |-> v.val]
      [] v.kind = "float" -> [kind |-> "float", val |-> v.val]
      [] v.kind = "str"   -> [kind |-> "string", val |-> v.val]
      [] v.kind = "dict"  -> [kind |-> "object", val |-> v.val]
      [] v.kind \in {"list", "tuple"} ->
            [kind |-> "array", val |-> [j \in 1..Len(v.val) |-> json_dumps(v.val[j])]]

EmptyText == [kind |-> "empty", val |-> 0]

RECURSIVE json_load(_)
json_load(t) ==
    CASE t.kind = "null"   -> None
      [] t.kind = "int"    -> PyInt(t.val)
      [] t.kind = "float"  -> PyFloat(t.val)
      [] t.kind = "string" -> PyStr(t.val)
      [] t.kind = "object" -> PyDict(t.val)
      [] t.kind = "array"  ->
            PyList([j \in 1..Len(t.val) |-> json_load(t.val[j])])

(***************************************************************************)
(* GRU.save_zip: the archive written                                       *)
(***************************************************************************)
\* isinstance(v, list) and v and isinstance(v[0], np.ndarray)
is_array_list(v) ==
    /\ v.kind = "list"
    /\ Truthy(v)
    /\ v.val[1].kind = "ndarray"

\* the archive entry a key is written to
entry_name(k, v) == IF is_array_list(v) THEN <<k, "npyl">> ELSE <<k, "json">>

\* np.save(f, x, allow_pickle=False) for each x in v
npyl_dump(v) == [j \in 1..Len(v.val) |-> v.val[j].val]

\* index of the first key whose json.dumps raises, or 0
first_unserializable(state) ==
    LET bad == {j \in 1..Len(StateKeys) :
                   /\ ~is_array_list(state[StateKeys[j]])
                   /\ ~json_serializable(state[StateKeys[j]])}
    IN  IF bad = {} THEN 0 ELSE CHOOSE j \in bad : \A i \in bad : j <= i

\* the entries present when the `with ZipFile` block is left: all of them, or
\* those written before json.dumps raised plus the entry it left empty
zip_entries(state) ==
    LET stop == first_unserializable(state)
        last == IF stop = 0 THEN Len(StateKeys) ELSE stop
        written == {StateKeys[j] : j \in 1..last}
    IN  [e \in {entry_name(k, state[k]) : k \in written} |->
            IF e[2] = "npyl" THEN npyl_dump(state[e[1]])
            ELSE IF stop # 0 /\ e[1] = StateKeys[stop] THEN EmptyText
            ELSE json_dumps(state[e[1]])]

(***************************************************************************)
(* Positional rebinding: for net_param, state_param in zip(net.params, ..) *)
(***************************************************************************)
Min(a, b) == IF a <= b THEN a ELSE b

\* a rebinding that pairs every live parameter with the first persisted value
rebind_source_first(state_params, i) == state_params[1]

\* the persisted value bound to live parameter i (i within both lists)
rebind_source(state_params, i) == state_params[i]

\* net_param.set_value(state_param, borrow=True) replaces the whole value; it
\* checks dtype and number of dimensions only, and persisted value i has the
\* dimensions of live parameter i in every file modelled here.
rebind(m, state_params) ==
    LET n == Min(Len(m.params), Len(state_params))
        bound == {m.params[i] : i \in 1..n}
        index(ref) == CHOOSE i \in 1..n : m.params[i] = ref
    IN  [m EXCEPT !.vars =
            [ref \in DOMAIN m.vars |->
                IF ref \in bound
                THEN [m.vars[ref] EXCEPT !.value = rebind_source(state_params, index(ref)).val]
                ELSE m.vars[ref]]]

(***************************************************************************)
(* load / loads: the outcome [err, key, net, rng, ret] on an unpickled     *)
(* state dict                                                              *)
(***************************************************************************)
\* module-level names of models.py that globals() can return
Globals == {"PReLU", "ReLU", "_get_shape", "_slice", "weights_const",
            "weights_identity", "weights_Glorot", "load", "loads",
            "GRULayer", "GRU", "np", "T", "aesara", "json", "zipfile",
            "os", "logging", "cPickle", "cpickle_options"}

\* the names among them that are Model implementations
Models == {"GRU"}

Failure(err, key, r) ==
    [err |-> err, key |-> key, net |-> NoModel, rng |-> r, ret |-> None]

\* the first of the keys subscripted by load that the dict lacks, or ""
RECURSIVE first_missing(_, _)
first_missing(state, keys) ==
    IF Len(keys) = 0 THEN ""
    ELSE IF Head(keys) \notin DOMAIN state THEN Head(keys)
    ELSE first_missing(state, Tail(keys))

\* state.get("stage1_model_file_name", None)
state_get_stage1(state) ==
    IF "stage1_model_file_name" \in DOMAIN state
    THEN state["stage1_model_file_name"] ELSE None

\* gsums, learning_rate, history and epoch of the returned tuple
load_context(state) ==
    PyTuple(<< IF Truthy(state["gsums"])
               THEN PyList([j \in 1..Len(state["gsums"].val) |->
                               [kind |-> "shared", val |-> state["gsums"].val[j].val]])
               ELSE None,
               state["learning_rate"],
               state["validation_ppl_history"],
               state["epoch"] >>)

load_state(state, p, r, pretrained, minibatch_size) ==
    IF "type" \notin DOMAIN state THEN Failure("KeyError", "type", r)
    ELSE IF state["type"].val \notin Globals
         THEN Failure("KeyError", state["type"].val, r)
    ELSE IF "random_state" \notin DOMAIN state
         THEN Failure("KeyError", "random_state", r)
    ELSE IF ~set_state_ok(state["random_state"]) THEN Failure("TypeError", "set_state", r)
    ELSE
    LET r1 == set_state(state["random_state"])
        miss1 == first_missing(state, <<"n_hidden", "x_vocabulary", "y_vocabulary">>)
    IN  IF miss1 # "" THEN Failure("KeyError", miss1, r1)
        ELSE IF state["type"].val \notin Models THEN Failure("TypeError", "call", r1)
        ELSE
        LET made == GRU(r1, minibatch_size, state["n_hidden"].val,
                        state["x_vocabulary"], state["y_vocabulary"],
                        state_get_stage1(state), p, pretrained)
            miss2 == first_missing(state, <<"params", "gsums", "learning_rate",
                                            "validation_ppl_history", "epoch">>)
        IN  IF made.err # "none" THEN Failure(made.err, "", r1)
            ELSE IF miss2 # "" THEN Failure("KeyError", miss2, made.rng)
            ELSE [err |-> "none", key |-> "",
                  net |-> rebind(made.net, state["params"].val),
                  rng |-> made.rng,
                  ret |-> load_context(state)]

(***************************************************************************)
(* GRU._load_var_from_zip and GRU.load_zip                                 *)
(***************************************************************************)
\* a lookup that probes the array-list entry before the JSON entry
_load_var_from_zip_npyl_first(entries, key) ==
    IF <<key, "npyl">> \in DOMAIN entries
    THEN [err |-> "none", key |-> key,
          value |-> PyList([j \in 1..Len(entries[<<key, "npyl">>]) |->
                               NdArray(entries[<<key, "npyl">>][j])])]
    ELSE IF <<key, "json">> \in DOMAIN entries
    THEN IF entries[<<key, "json">>] = EmptyText
         THEN [err |-> "JSONDecodeError", key |-> key, value |-> None]
         ELSE [err |-> "none", key |-> key, value |-> json_load(entries[<<key, "json">>])]
    ELSE [err |-> "ValueError", key |-> key, value |-> None]

_load_var_from_zip(entries, key) ==
    IF <<key, "json">> \in DOMAIN entries
    THEN IF entries[<<key, "json">>] = EmptyText
         THEN [err |-> "JSONDecodeError", key |-> key, value |-> None]
         ELSE [err |-> "none", key |-> key, value |-> json_load(entries[<<key, "json">>])]
    ELSE IF <<key, "npyl">> \in DOMAIN entries
    THEN [err |-> "none", key |-> key,
          value |-> PyList([j \in 1..Len(entries[<<key, "npyl">>]) |->
                               NdArray(entries[<<key, "npyl">>][j])])]
    ELSE [err |-> "ValueError", key |-> key, value |-> None]

\* a type check that accepts every tag
type_matches_any(type_str, cls) == TRUE

\* assert type_str == cls.__name__
type_matches(type_str, cls) == type_str = PyStr(cls)

\* the keys load_zip looks up, in the order it looks them up
LoadKeys == <<"type", "random_state", "n_hidden", "x_vocabulary", "y_vocabulary", "params">>

load_zip(cls, entries, p, r, pretrained, minibatch_size) ==
    LET type_str == _load_var_from_zip(entries, "type")
        random_state == _load_var_from_zip(entries, "random_state")
        n_hidden == _load_var_from_zip(entries, "n_hidden")
        x_vocabulary == _load_var_from_zip(entries, "x_vocabulary")
        y_vocabulary == _load_var_from_zip(entries, "y_vocabulary")
        state_params == _load_var_from_zip(entries, "params")
    IN  IF type_str.err # "none" THEN Failure(type_str.err, "type", r)
        ELSE IF ~type_matches(type_str.value, cls) THEN Failure("AssertionError", "type", r)
        ELSE IF random_state.err # "none" THEN Failure(random_state.err, "random_state", r)
        ELSE IF Truthy(random_state.value) /\ ~set_state_ok(random_state.value)
             THEN Failure("TypeError", "set_state", r)
        ELSE
        LET r1 == IF Truthy(random_state.value) THEN set_state(random_state.value) ELSE r
        IN  IF n_hidden.err # "none" THEN Failure(n_hidden.err, "n_hidden", r1)
            ELSE IF x_vocabulary.err # "none" THEN Failure(x_vocabulary.err, "x_vocabulary", r1)
            ELSE IF y_vocabulary.err # "none" THEN Failure(y_vocabulary.err, "y_vocabulary", r1)
            ELSE
            LET made == GRU(r1, minibatch_size, n_hidden.value.val, x_vocabulary.value,
                            y_vocabulary.value, None, p, pretrained)
            IN  IF made.err # "none" THEN Failure(made.err, "", r1)
                ELSE IF state_params.err # "none"
                     THEN Failure(state_params.err, "params", made.rng)
                ELSE [err |-> "none", key |-> "",
                      net |-> rebind(made.net, state_params.value.val),
                      rng |-> made.rng,
                      ret |-> None]

(***************************************************************************)
(* Inputs                                                                  *)
(***************************************************************************)
Minibatch == 1

HiddenWidths == {1, 2}
XVocabularies == {PyDict(<<"a", "b">>)}
YVocabularies == {PyDict(<<"O", ",">>)}
Stage1Values == {None, PyStr(""), PyStr("stage1.pcl")}
PValues == {None, PyInt(0), PyFloat(5)}
TypeTags == {"GRU", "GRULayer", "GRUstage2"}
PretrainedFiles == {NoFile, [fmt |-> "pcl", rows |-> << <<2, 3>> >>]}
ParamCounts == {3, 30}

\* the optional arguments of save / save_zip tried, given the generator position
SaveContexts(r) ==
    LET gsum == PyList(<<shared(np_ones(<<2>>, 4), "gsum")>>)
        lr   == PyFloat(2)
        hist == PyList(<<PyFloat(7), PyFloat(6)>>)
        ep   == PyInt(4)
        ctx(g, l, h, e, s) == [gsums |-> g, learning_rate |-> l,
                               validation_ppl_history |-> h, epoch |-> e,
                               random_state |-> s]
    IN  { ctx(None, None, None, None, None),
          ctx(gsum, lr, hist, ep, get_state(r)),
          ctx(gsum, lr, hist, ep, get_state_as_lists(r)) }

Outcome(op, err, key, args, ret) ==
    [op |-> op, err |-> err, key |-> key, args |-> args, ret |-> ret]

(***************************************************************************)
(* Persistence: initial state and operations                               *)
(***************************************************************************)
IdleInitializers == W_call = [fn |-> "none"]

IdleForward ==
    /\ seq_x = <<>>
    /\ pc = "idle"
    /\ h_f_t = <<>>
    /\ h_b_t = <<>>
    /\ context = <<>>
    /\ h_dec = <<>>
    /\ trace = <<>>

IdlePersistence ==
    /\ net = NoModel
    /\ loaded = NoModel
    /\ file = NoFile
    /\ result = Outcome("none", "none", "", <<>>, None)
    /\ updates = 0
    /\ foreign = FALSE
    /\ saved = <<>>

Init ==
    /\ IdlePersistence
    /\ rng = 0
    /\ We_pcl \in PretrainedFiles
    /\ IdleInitializers
    /\ IdleForward

\* the training collaborator constructs the model
Construct(n_hidden, x_vocabulary, y_vocabulary, stage1_model_file_name, p) ==
    /\ net = NoModel
    /\ LET made == GRU(rng, Minibatch, n_hidden, x_vocabulary, y_vocabulary,
                       stage1_model_file_name, p, We_pcl)
       IN  /\ net' = made.net
           /\ rng' = made.rng
           /\ result' = Outcome("GRU", made.err, "", <<stage1_model_file_name, p>>, None)
    /\ UNCHANGED <<loaded, file, We_pcl, updates, foreign, saved, init_vars, fwd_vars>>

\* one update of the training collaborator: every parameter value moves
Train ==
    /\ net # NoModel
    /\ updates < MaxUpdates
    /\ net' = [net EXCEPT !.vars =
                 [ref \in DOMAIN net.vars |->
                    IF \E i \in 1..Len(net.params) : net.params[i] = ref
                    THEN [net.vars[ref] EXCEPT !.value.elems =
                            [k \in DOMAIN net.vars[ref].value.elems |->
                                net.vars[ref].value.elems[k] + 1]]
                    ELSE net.vars[ref]]]
    /\ updates' = updates + 1
    /\ result' = Outcome("train", "none", "", <<>>, None)
    /\ UNCHANGED <<loaded, file, rng, We_pcl, foreign, saved, init_vars, fwd_vars>>

save(c) ==
    /\ net # NoModel
    /\ file' = [fmt |-> "blob",
                state |-> make_state(net, c.gsums, c.learning_rate,
                                     c.validation_ppl_history, c.epoch, c.random_state)]
    /\ saved' = get_values(net)
    /\ foreign' = FALSE
    /\ result' = Outcome("save", "none", "", <<c.random_state>>, None)
    /\ UNCHANGED <<net, loaded, rng, We_pcl, updates, init_vars, fwd_vars>>

save_zip(c) ==
    /\ net # NoModel
    /\ LET state == make_state(net, c.gsums, c.learning_rate,
                               c.validation_ppl_history, c.epoch, c.random_state)
           stop == first_unserializable(state)
       IN  /\ file' = [fmt |-> "zip", entries |-> zip_entries(state)]
           /\ result' = Outcome("save_zip", IF stop = 0 THEN "none" ELSE "TypeError",
                                IF stop = 0 THEN "" ELSE StateKeys[stop],
                                <<c.random_state>>, None)
    /\ saved' = get_values(net)
    /\ foreign' = FALSE
    /\ UNCHANGED <<net, loaded, rng, We_pcl, updates, init_vars, fwd_vars>>

load(p) ==
    /\ file.fmt = "blob"
    /\ LET out == load_state(file.state, p, rng, We_pcl, Minibatch)
       IN  /\ loaded' = out.net
           /\ rng' = out.rng
           /\ result' = Outcome("load", out.err, out.key, <<p>>, out.ret)
    /\ UNCHANGED <<net, file, We_pcl, updates, foreign, saved, init_vars, fwd_vars>>

\* loads is handed the bytes of a blob by its caller
loads(p) ==
    /\ file.fmt = "blob"
    /\ LET out == load_state(file.state, p, rng, We_pcl, Minibatch)
       IN  /\ loaded' = out.net
           /\ rng' = out.rng
           /\ result' = Outcome("loads", out.err, out.key, <<p>>, out.ret)
    /\ UNCHANGED <<net, file, We_pcl, updates, foreign, saved, init_vars, fwd_vars>>

GRU_load_zip(p) ==
    /\ file.fmt = "zip"
    /\ LET out == load_zip("GRU", file.entries, p, rng, We_pcl, Minibatch)
       IN  /\ loaded' = out.net
           /\ rng' = out.rng
           /\ result' = Outcome("load_zip", out.err, out.key, <<p>>, out.ret)
    /\ UNCHANGED <<net, file, We_pcl, updates, foreign, saved, init_vars, fwd_vars>>

(***************************************************************************)
(* Files that were not written by this model: another model type's file,   *)
(* an older or truncated one.  Each edit replaces the stored file.         *)
(***************************************************************************)
Edited(f) ==
    /\ ~foreign
    /\ file' = f
    /\ file' # file
    /\ foreign' = TRUE
    /\ result' = Outcome("edit", "none", "", <<>>, None)
    /\ UNCHANGED <<net, loaded, rng, We_pcl, updates, saved, init_vars, fwd_vars>>

\* a list of n arrays: the first n of olds, then arrays the model never held
resized(olds, n) ==
    [j \in 1..n |-> IF j <= Len(olds) THEN olds[j] ELSE np_ones(<<1>>, 9)]

EditType(tag) ==
    \/ /\ file.fmt = "blob"
       /\ "type" \in DOMAIN file.state
       /\ Edited([file EXCEPT !.state["type"] = PyStr(tag)])
    \/ /\ file.fmt = "zip"
       /\ <<"type", "json">> \in DOMAIN file.entries
       /\ Edited([file EXCEPT !.entries[<<"type", "json">>] = json_dumps(PyStr(tag))])

EditDropKey(k) ==
    \/ /\ file.fmt = "blob"
       /\ Edited([file EXCEPT !.state = [j \in (DOMAIN file.state) \ {k} |-> file.state[j]]])
    \/ /\ file.fmt = "zip"
       /\ Edited([file EXCEPT !.entries =
                    [e \in {d \in DOMAIN file.entries : d[1] # k} |-> file.entries[e]]])

EditParams(n) ==
    \/ /\ file.fmt = "blob"
       /\ "params" \in DOMAIN file.state
       /\ Edited([file EXCEPT !.state["params"] =
                    PyList([j \in 1..n |->
                       NdArray(resized(npyl_dump(file.state["params"]), n)[j])])])
    \/ /\ file.fmt = "zip"
       /\ <<"params", "npyl">> \in DOMAIN file.entries
       /\ Edited([file EXCEPT !.entries[<<"params", "npyl">>] =
                    resized(file.entries[<<"params", "npyl">>], n)])

EditStage1(v) ==
    /\ file.fmt = "blob"
    /\ "stage1_model_file_name" \in DOMAIN file.state
    /\ Edited([file EXCEPT !.state["stage1_model_file_name"] = v])

\* an archive that also carries params.json, holding the empty list
EditAddParamsJson ==
    /\ file.fmt = "zip"
    /\ Edited([file EXCEPT !.entries =
                 [e \in (DOMAIN file.entries) \cup {<<"params", "json">>} |->
                    IF e = <<"params", "json">> THEN json_dumps(PyList(<<>>))
                    ELSE file.entries[e]]])

DropKeys == {"type", "random_state", "n_hidden", "x_vocabulary", "y_vocabulary",
             "params", "stage1_model_file_name"}

Next ==
    \/ \E n \in HiddenWidths, xv \in XVocabularies, yv \in YVocabularies,
          s \in Stage1Values, p \in PValues : Construct(n, xv, yv, s, p)
    \/ Train
    \/ \E c \in SaveContexts(rng) : save(c)
    \/ \E c \in SaveContexts(rng) : save_zip(c)
    \/ \E p \in PValues : load(p)
    \/ \E p \in PValues : loads(p)
    \/ \E p \in PValues : GRU_load_zip(p)
    \/ \E tag \in TypeTags : EditType(tag)
    \/ \E k \in DropKeys : EditDropKey(k)
    \/ \E n \in ParamCounts : EditParams(n)
    \/ \E v \in Stage1Values : EditStage1(v)
    \/ EditAddParamsJson

Spec == Init /\ [][Next]_vars

(***************************************************************************)
(* The initializers called on their own                                    *)
(***************************************************************************)
Fans == 1..MaxFan
Consts == {0, 1, 2}

InitInitializers ==
    /\ IdlePersistence
    /\ rng \in 0..(RngMod - 1)
    /\ We_pcl = NoFile
    /\ IdleInitializers
    /\ IdleForward

Called(fn, i, o, keepdims, const, var) ==
    /\ W_call' = [fn |-> fn, i |-> i, o |-> o, keepdims |-> keepdims,
                  const |-> const, out |-> var.value]
    /\ UNCHANGED <<net, loaded, file, We_pcl, result, updates, foreign, saved, fwd_vars>>

Call_weights_const(i, o, const, keepdims) ==
    /\ Called("weights_const", i, o, keepdims, const, weights_const(i, o, "W", const, keepdims))
    /\ rng' = rng

Call_weights_identity(i, o, const, keepdims) ==
    /\ Called("weights_identity", i, o, keepdims, const,
              weights_identity(i, o, "W", const, keepdims))
    /\ rng' = rng

Call_weights_Glorot(i, o, keepdims) ==
    /\ Called("weights_Glorot", i, o, keepdims, 0, weights_Glorot(i, o, "W", rng, keepdims))
    /\ rng' = Glorot_rng(i, o, rng, keepdims)

NextInitializers ==
    \/ \E i \in Fans, o \in Fans, c \in Consts, kd \in BOOLEAN :
          Call_weights_const(i, o, c, kd)
    \/ \E i \in Fans, o \in Fans, c \in Consts, kd \in BOOLEAN :
          Call_weights_identity(i, o, c, kd)
    \/ \E i \in Fans, o \in Fans, kd \in BOOLEAN : Call_weights_Glorot(i, o, kd)

SpecInitializers == InitInitializers /\ [][NextInitializers]_vars

(***************************************************************************)
(* The forward computation: the two scans of GRU.__init__                  *)
(* Tensors of the forward pass are terms: a hidden state is the cell that  *)
(* produced it and the inputs it has consumed since h0, oldest first.      *)
(***************************************************************************)
Tokens == {0, 1}

\* self.<cell>.h0
h0(cell) == [kind |-> "hidden", cell |-> cell, hist |-> <<>>]

\* GRULayer.step(x_t, h_tm1): z * h_tm1 + (1 - z) * h, a function of both
GRULayer_step(cell, x_t, h_tm1) ==
    [kind |-> "hidden", cell |-> cell, hist |-> Append(h_tm1.hist, x_t)]

\* self.We[x.flatten()].reshape(...): one embedding per token
x_emb(x) == [t \in 1..Len(x) |-> [kind |-> "emb", token |-> x[t]]]

\* s[::-1]
Reversed(s) == [t \in 1..Len(s) |-> s[Len(s) + 1 - t]]

input_recurrence(x_f_t, x_b_t, h_f_tm1, h_b_tm1) ==
    [h_f_t |-> GRULayer_step("GRU_f", x_f_t, h_f_tm1),
     h_b_t |-> GRULayer_step("GRU_b", x_b_t, h_b_tm1)]

\* T.concatenate([h_f_t, h_b_t[::-1]], axis=2)
concatenate(hf, hb) ==
    [t \in 1..Len(hf) |-> [kind |-> "context", f |-> hf[t], b |-> Reversed(hb)[t]]]

\* a decoder scan that also visits the first context vector
decoder_sequences_all(ctx) == ctx

\* sequences=[context[1:]]
decoder_sequences(ctx) == Tail(ctx)

\* a decoder cell fed the attention-weighted context
decoder_cell_input_weighted(x_t, weighted_context) == weighted_context

\* the x_t handed to self.GRU.step inside output_recurrence
decoder_cell_input(x_t, weighted_context) == x_t

output_recurrence(x_t, h_tm1, ctx) ==
    LET \* alphas: one weight per context position, from projected_context and h_tm1
        alphas == [j \in 1..Len(ctx) |->
                     [kind |-> "alpha", of |-> ctx[j], h |-> h_tm1]]
        \* (context * alphas[:, :, None]).sum(axis=0)
        weighted_context == [kind |-> "weighted_sum",
                             terms |-> [j \in 1..Len(ctx) |-> <<ctx[j], alphas[j]>>]]
        fed == decoder_cell_input(x_t, weighted_context)
        h_t == GRULayer_step("GRU", fed, h_tm1)
        hf_t == [kind |-> "fused", lfc |-> weighted_context, h |-> h_t]
        y_t == [kind |-> "softmax", of |-> hf_t]
    IN  [x_t |-> x_t, h_tm1 |-> h_tm1, fed |-> fed,
         weighted_context |-> weighted_context,
         h_t |-> h_t, hf_t |-> hf_t, y_t |-> y_t, alphas |-> alphas]

InitForward ==
    /\ IdlePersistence
    /\ rng = 0
    /\ We_pcl = NoFile
    /\ IdleInitializers
    /\ IdleForward

\* the compiled graph is run on an input sequence
Feed(x) ==
    /\ pc = "idle"
    /\ seq_x' = x
    /\ pc' = "encode"
    /\ UNCHANGED <<h_f_t, h_b_t, context, h_dec, trace, persist_vars, init_vars>>

\* one step of the first scan
EncodeStep ==
    /\ pc = "encode"
    /\ Len(h_f_t) < Len(seq_x)
    /\ LET k == Len(h_f_t) + 1
           out == input_recurrence(x_emb(seq_x)[k], Reversed(x_emb(seq_x))[k],
                                   IF k = 1 THEN h0("GRU_f") ELSE h_f_t[k - 1],
                                   IF k = 1 THEN h0("GRU_b") ELSE h_b_t[k - 1])
       IN  /\ h_f_t' = Append(h_f_t, out.h_f_t)
           /\ h_b_t' = Append(h_b_t, out.h_b_t)
    /\ UNCHANGED <<seq_x, pc, context, h_dec, trace, persist_vars, init_vars>>

\* the first scan is over: context (and its projection) is computed
Concatenate ==
    /\ pc = "encode"
    /\ Len(h_f_t) = Len(seq_x)
    /\ context' = concatenate(h_f_t, h_b_t)
    /\ h_dec' = h0("GRU")
    /\ pc' = "decode"
    /\ UNCHANGED <<seq_x, h_f_t, h_b_t, trace, persist_vars, init_vars>>

\* one step of the second scan
DecodeStep ==
    /\ pc = "decode"
    /\ Len(trace) < Len(decoder_sequences(context))
    /\ LET out == output_recurrence(decoder_sequences(context)[Len(trace) + 1],
                                    h_dec, context)
       IN  /\ trace' = Append(trace, out)
           /\ h_dec' = out.h_t
    /\ UNCHANGED <<seq_x, pc, h_f_t, h_b_t, context, persist_vars, init_vars>>

\* the second scan is over: last_hidden_states, y and alphas are complete
Finish ==
    /\ pc = "decode"
    /\ Len(trace) = Len(decoder_sequences(context))
    /\ pc' = "done"
    /\ UNCHANGED <<seq_x, h_f_t, h_b_t, context, h_dec, trace, persist_vars, init_vars>>

Inputs == UNION {[1..n -> Tokens] : n \in 1..MaxT}

NextForward ==
    \/ \E x \in Inputs : Feed(x)
    \/ EncodeStep
    \/ Concatenate
    \/ DecodeStep
    \/ Finish

SpecForward == InitForward /\ [][NextForward]_vars

(***************************************************************************)
(* Properties of the initializers (SpecInitializers)                       *)
(***************************************************************************)
\* C7: each of weights_const, weights_identity and weights_Glorot returns a
\* tensor that is 1-dimensional of length max(i, o) when i = 1 or o = 1 and
\* keepdims is false, and 2-dimensional of shape (i, o) otherwise;
\* weights_const fills it entirely with the given constant.
C7_ShapeRule ==
    W_call.fn # "none" =>
        /\ W_call.out.shape =
              IF (W_call.i = 1 \/ W_call.o = 1) /\ ~W_call.keepdims
              THEN <<Max(W_call.i, W_call.o)>>
              ELSE <<W_call.i, W_call.o>>
        /\ W_call.fn = "weights_const" =>
              /\ Len(W_call.out.elems) = Prod(W_call.out.shape)
              /\ \A k \in 1..Len(W_call.out.elems) : W_call.out.elems[k] = W_call.const

(***************************************************************************)
(* Properties of the forward computation (SpecForward)                     *)
(***************************************************************************)
\* C8 as stated: in every decode step the decoder cell's hidden update is fed
\* the attention-weighted context of that step as its input, with the
\* previous decoder hidden state as its state.
C8_FedWeightedContext ==
    \A k \in 1..Len(trace) :
        /\ trace[k].h_t = GRULayer_step("GRU", trace[k].weighted_context, trace[k].h_tm1)
        /\ trace[k].fed = trace[k].weighted_context

\* C8 as amended: in every decode step the decoder cell's hidden update is fed
\* the context vector of the position being decoded (context[k] for the k-th
\* step, positions counted from 0) as its input, with the previous decoder
\* hidden state as its state; the attention-weighted context of the step
\* enters only the late fusion.
C8_FedContextVector ==
    \A k \in 1..Len(trace) :
        /\ trace[k].fed = context[k + 1]
        /\ trace[k].h_tm1 = (IF k = 1 THEN h0("GRU") ELSE trace[k - 1].h_t)
        /\ trace[k].h_t.hist = [j \in 1..k |-> context[j + 1]]
        /\ trace[k].h_t.cell = "GRU"
        /\ trace[k].hf_t.lfc = trace[k].weighted_context
        /\ trace[k].weighted_context.terms =
              [j \in 1..Len(context) |->
                 <<context[j], [kind |-> "alpha", of |-> context[j], h |-> trace[k].h_tm1]>>]

\* two decode steps have run: the second one carries the first one's hidden
C8_Witness == Len(trace) >= 2

\* C9: for an input of T steps the whole context sequence (context t = forward
\* hidden after tokens 0..t with backward hidden after tokens T-1..t, both from
\* zero state) exists before the first decode step; decoding runs exactly T-1
\* steps, for positions 1..T-1 in increasing order and never position 0, from
\* the decoder's zero state, each step's hidden carried into the next, and
\* yields T-1 outputs, fused states and attention vectors over all T positions.
C9_Schedule ==
    LET T == Len(seq_x)
        emb(t) == [kind |-> "emb", token |-> seq_x[t]]
    IN  /\ pc \in {"idle", "encode"} => context = <<>> /\ trace = <<>>
        /\ pc \in {"decode", "done"} =>
              /\ Len(context) = T
              /\ \A t \in 1..T :
                    /\ context[t].f = [kind |-> "hidden", cell |-> "GRU_f",
                                       hist |-> [j \in 1..t |-> emb(j)]]
                    /\ context[t].b = [kind |-> "hidden", cell |-> "GRU_b",
                                       hist |-> [j \in 1..(T + 1 - t) |-> emb(T + 1 - j)]]
        /\ Len(trace) <= Max(T, 1) - 1
        /\ pc = "done" => Len(trace) = T - 1
        /\ \A k \in 1..Len(trace) :
              /\ trace[k].x_t = context[k + 1]
              /\ trace[k].x_t # context[1]
              /\ trace[k].h_tm1 = (IF k = 1 THEN h0("GRU") ELSE trace[k - 1].h_t)
              /\ trace[k].y_t.of = trace[k].hf_t
              /\ DOMAIN trace[k].alphas = 1..T
              /\ \A j \in 1..T : trace[k].alphas[j].of = context[j]

\* a sequence of at least three tokens has been decoded to the end
C9_Witness == pc = "done" /\ Len(seq_x) >= 3 /\ Len(trace) = Len(seq_x) - 1

(***************************************************************************)
(* Properties of construction and persistence (Spec)                       *)
(***************************************************************************)
\* value of the i-th entry of a model's parameter list
param_value(m, i) == m.vars[m.params[i]].value

\* C2: params is exactly [We, Wy, by, Wa_h, Wa_c, ba, Wa_y, Wf_h, Wf_c, Wf_f, bf]
\* followed by the decoder cell's, the forward cell's and the backward cell's
\* [W_x, W_h, b, W_x_h, W_h_h, b_h]; it has 29 entries, every Parameter object
\* is in it exactly once, and save, save_zip, load and load_zip leave its
\* length and order alone.
C2_ParamsOrder ==
    \A m \in {net, loaded} :
        m # NoModel =>
            /\ m.params =
                  << <<"self", "We">>, <<"self", "Wy">>, <<"self", "by">>,
                     <<"self", "Wa_h">>, <<"self", "Wa_c">>, <<"self", "ba">>,
                     <<"self", "Wa_y">>, <<"self", "Wf_h">>, <<"self", "Wf_c">>,
                     <<"self", "Wf_f">>, <<"self", "bf">>,
                     <<"GRU", "W_x">>, <<"GRU", "W_h">>, <<"GRU", "b">>,
                     <<"GRU", "W_x_h">>, <<"GRU", "W_h_h">>, <<"GRU", "b_h">>,
                     <<"GRU_f", "W_x">>, <<"GRU_f", "W_h">>, <<"GRU_f", "b">>,
                     <<"GRU_f", "W_x_h">>, <<"GRU_f", "W_h_h">>, <<"GRU_f", "b_h">>,
                     <<"GRU_b", "W_x">>, <<"GRU_b", "W_h">>, <<"GRU_b", "b">>,
                     <<"GRU_b", "W_x_h">>, <<"GRU_b", "W_h_h">>, <<"GRU_b", "b_h">> >>
            /\ Len(m.params) = 29
            /\ \A i, j \in 1..Len(m.params) : m.params[i] = m.params[j] => i = j
            /\ {m.params[i] : i \in 1..Len(m.params)} =
                  {ref \in DOMAIN m.vars : ref[2] # "h0"}

\* a trained model is live and a load has returned a second model
C2_Witness ==
    /\ net # NoModel
    /\ updates > 0
    /\ loaded # NoModel
    /\ result.op \in {"load", "loads", "load_zip"}

\* C3 as stated: construction fails with a precondition error whenever a
\* stage-1 reference or an auxiliary argument is supplied, for every supplied
\* value, and succeeds only when both are absent; load and loads fail whenever
\* the record carries a stage-1 reference or the caller passes p.
C3_AnySuppliedValue ==
    /\ result.op = "GRU" =>
          IF result.args[1] # None \/ result.args[2] # None
          THEN result.err = "AssertionError" /\ net = NoModel
          ELSE result.err = "none" /\ net # NoModel
    /\ (/\ result.op \in {"load", "loads"}
        /\ state_get_stage1(file.state) # None \/ result.args[1] # None)
          => result.err # "none" /\ loaded = NoModel

\* C3 as amended: construction fails with a precondition error, no parameter
\* created, exactly when the stage-1 reference or the auxiliary argument is a
\* truthy value (not None, "", 0 or another empty value); it succeeds when
\* both are absent or falsy.  load and loads fail whenever the record carries
\* a truthy stage-1 reference or the caller passes a truthy p.
C3_TruthyValue ==
    /\ result.op = "GRU" =>
          IF Truthy(result.args[1]) \/ Truthy(result.args[2])
          THEN result.err = "AssertionError" /\ net = NoModel
          ELSE result.err = "none" /\ net # NoModel
    /\ (/\ result.op \in {"load", "loads"}
        /\ Truthy(state_get_stage1(file.state)) \/ Truthy(result.args[1]))
          => result.err # "none" /\ loaded = NoModel

\* a load was refused because the record carries a stage-1 reference
C3_Witness ==
    /\ result.op \in {"load", "loads"}
    /\ Truthy(state_get_stage1(file.state))
    /\ ~Truthy(result.args[1])
    /\ result.err = "AssertionError"

\* C6: load and loads fail, constructing no model, when the record's type tag
\* names no known Model implementation; GRU.load_zip fails, before restoring
\* the generator state and before constructing a model, when the archive's
\* type tag differs from the loading class's name; when the tag matches, the
\* model returned is an instance of the class the tag names.
C6_Step ==
    /\ (/\ result'.op \in {"load", "loads"}
        /\ "type" \in DOMAIN file.state
        /\ file.state["type"].val \notin Models)
          => result'.err # "none" /\ loaded' = NoModel
    /\ (/\ result'.op = "load_zip"
        /\ <<"type", "json">> \in DOMAIN file.entries
        /\ file.entries[<<"type", "json">>] # [kind |-> "string", val |-> "GRU"])
          => /\ result'.err = "AssertionError"
             /\ loaded' = NoModel
             /\ rng' = rng
    /\ (result'.op \in {"load", "loads"} /\ result'.err = "none")
          => loaded'.cls = file.state["type"].val
    /\ (result'.op = "load_zip" /\ result'.err = "none")
          => /\ loaded'.cls = "GRU"
             /\ file.entries[<<"type", "json">>] = [kind |-> "string", val |-> "GRU"]

C6_TypeTag == [][C6_Step]_vars

\* load_zip refused an archive of another type while rng was not at its stored state
C6_Witness ==
    /\ result.op = "load_zip"
    /\ result.err = "AssertionError"
    /\ result.key = "type"
    /\ <<"random_state", "json">> \in DOMAIN file.entries
    /\ file.entries[<<"random_state", "json">>].kind = "array"
    /\ rng # file.entries[<<"random_state", "json">>].val[2].val[1].val

\* what a load step reads from the stored file: the persisted parameter list,
\* the generator state and the hyperparameters
persisted_params ==
    IF file.fmt = "blob" THEN file.state["params"].val
    ELSE IF <<"params", "json">> \in DOMAIN file.entries
         THEN json_load(file.entries[<<"params", "json">>]).val
         ELSE [j \in 1..Len(file.entries[<<"params", "npyl">>]) |->
                  NdArray(file.entries[<<"params", "npyl">>][j])]

persisted_random_state ==
    IF file.fmt = "blob" THEN file.state["random_state"]
    ELSE json_load(file.entries[<<"random_state", "json">>])

persisted_hyper(k) ==
    IF file.fmt = "blob" THEN file.state[k] ELSE json_load(file.entries[<<k, "json">>])

\* everything a load does before it rebinds is in order
blob_loadable(p) ==
    /\ KeySet \ {"stage1_model_file_name"} \subseteq DOMAIN file.state
    /\ file.state["type"] = PyStr("GRU")
    /\ set_state_ok(file.state["random_state"])
    /\ ~Truthy(state_get_stage1(file.state))
    /\ ~Truthy(p)

zip_loadable(p) ==
    /\ \A k \in {"type", "random_state", "n_hidden", "x_vocabulary", "y_vocabulary"} :
          /\ <<k, "json">> \in DOMAIN file.entries
          /\ file.entries[<<k, "json">>] # EmptyText
    /\ <<"params", "json">> \in DOMAIN file.entries
          \/ <<"params", "npyl">> \in DOMAIN file.entries
    /\ file.entries[<<"type", "json">>] = [kind |-> "string", val |-> "GRU"]
    /\ file.entries[<<"random_state", "json">>].kind \in {"null", "array"}
    /\ ~Truthy(p)

\* C10: on load, loads and load_zip the model is first constructed with
\* initialized parameters, then live parameter i is set to persisted value i
\* for every i below the shorter of the two lists; live parameters beyond a
\* shorter persisted list keep the value construction gave them and no error
\* is raised; extra persisted values are ignored; no live parameter is set
\* from a persisted value at another index.
C10_Step ==
    LET op == result'.op
        p  == result'.args[1]
    IN  /\ (op \in {"load", "loads"} /\ blob_loadable(p)) => result'.err = "none"
        /\ (op = "load_zip" /\ zip_loadable(p)) => result'.err = "none"
        /\ (op \in {"load", "loads", "load_zip"} /\ result'.err = "none") =>
              LET start == IF Truthy(persisted_random_state)
                           THEN set_state(persisted_random_state) ELSE rng
                  fresh == GRU(start, Minibatch, persisted_hyper("n_hidden").val,
                               persisted_hyper("x_vocabulary"),
                               persisted_hyper("y_vocabulary"), None, None, We_pcl)
              IN  /\ loaded' # NoModel
                  /\ Len(loaded'.params) = Len(fresh.net.params)
                  /\ \A i \in 1..Len(loaded'.params) :
                        param_value(loaded', i) =
                           IF i <= Len(persisted_params)
                           THEN persisted_params[i].val
                           ELSE param_value(fresh.net, i)

C10_PositionalRebinding == [][C10_Step]_vars

\* a load from a file holding only three parameter values has returned a
\* model, whose fourth parameter differs from every persisted value
C10_Witness ==
    /\ result.op \in {"load", "loads", "load_zip"}
    /\ result.err = "none"
    /\ Len(persisted_params) = 3
    /\ \A j \in 1..3 : param_value(loaded, 4) # persisted_params[j].val

\* the keys load_zip needs, as a set
LoadKeySet == {LoadKeys[j] : j \in 1..Len(LoadKeys)}

missing(k) ==
    /\ <<k, "json">> \notin DOMAIN file.entries
    /\ <<k, "npyl">> \notin DOMAIN file.entries

\* the lookup of every key in the stored archive: the JSON entry wins, then
\* the array list in stored order, else the error naming the key
lookup_rule ==
    \A k \in KeySet :
        LET r == _load_var_from_zip(file.entries, k)
        IN  IF <<k, "json">> \in DOMAIN file.entries
            THEN file.entries[<<k, "json">>] # EmptyText =>
                    r.err = "none" /\ r.value = json_load(file.entries[<<k, "json">>])
            ELSE IF <<k, "npyl">> \in DOMAIN file.entries
            THEN /\ r.err = "none"
                 /\ r.value.kind = "list"
                 /\ Len(r.value.val) = Len(file.entries[<<k, "npyl">>])
                 /\ \A j \in 1..Len(r.value.val) :
                       r.value.val[j] = NdArray(file.entries[<<k, "npyl">>][j])
            ELSE r.err = "ValueError" /\ r.key = k

\* what load_zip made of the entries it read
lookup_observed ==
    (result.op = "load_zip" /\ result.err = "none") =>
        /\ PyInt(loaded.n_hidden) = json_load(file.entries[<<"n_hidden", "json">>])
        /\ loaded.x_vocabulary = json_load(file.entries[<<"x_vocabulary", "json">>])
        /\ loaded.y_vocabulary = json_load(file.entries[<<"y_vocabulary", "json">>])
        /\ \A i \in 1..Len(loaded.params) :
              i <= Len(persisted_params) => param_value(loaded, i) = persisted_params[i].val

\* C4 as stated: k.json, when present, is decoded and returned even if k.npyl
\* exists too; otherwise k.npyl gives the list of all its arrays in stored
\* order; otherwise the lookup raises an error naming k.  load_zip fails with
\* that error, returning no model, when any of type, random_state, n_hidden,
\* x_vocabulary, y_vocabulary or params is missing from the archive.
C4_MissingFieldError ==
    file.fmt = "zip" =>
        /\ lookup_rule
        /\ lookup_observed
        /\ result.op = "load_zip" =>
              \A k \in LoadKeySet :
                  missing(k) => /\ result.err = "ValueError"
                                /\ result.key = k
                                /\ loaded = NoModel

\* every step load_zip performs before it looks key k up succeeds
reaches_lookup(k, p) ==
    LET at == CHOOSE j \in 1..Len(LoadKeys) : LoadKeys[j] = k
        found(j) == /\ <<LoadKeys[j], "json">> \in DOMAIN file.entries
                    /\ file.entries[<<LoadKeys[j], "json">>] # EmptyText
    IN  /\ \A j \in 1..(at - 1) : found(j)
        /\ at > 1 => file.entries[<<"type", "json">>] = [kind |-> "string", val |-> "GRU"]
        /\ at > 2 => file.entries[<<"random_state", "json">>].kind \in {"null", "array"}
        /\ k = "params" => ~Truthy(p)

\* C4 as amended: the lookup rule as stated (for a k.json that holds a JSON
\* text).  load_zip fails and returns no model when any of the six keys is
\* missing; the error is the lookup's error naming the missing key k whenever
\* load_zip reaches the lookup of k, that is when the keys looked up before k
\* (in the order type, random_state, n_hidden, x_vocabulary, y_vocabulary,
\* params) are found and decoded, the type tag is the class name, the stored
\* generator state is accepted and, for params, p is not truthy; otherwise
\* the earlier failure is raised instead.
C4_MissingFieldReached ==
    file.fmt = "zip" =>
        /\ lookup_rule
        /\ lookup_observed
        /\ result.op = "load_zip" =>
              \A k \in LoadKeySet :
                  missing(k) =>
                      /\ result.err # "none"
                      /\ loaded = NoModel
                      /\ reaches_lookup(k, result.args[1]) =>
                            result.err = "ValueError" /\ result.key = k

\* load_zip constructed the model and then found no params entry
C4_Witness ==
    /\ result.op = "load_zip"
    /\ missing("params")
    /\ result.err = "ValueError"
    /\ result.key = "params"
    /\ loaded = NoModel

\* C5: save_zip writes exactly one entry for each of the 11 ModelState fields;
\* a field holding a sequence of arrays goes to <field>.npyl with exactly
\* those arrays in order, every other field, whatever its value (a captured
\* generator state included), goes to <field>.json as the JSON text of the
\* value; save_zip completes for every such state.
C5_OneEntryPerField ==
    result.op = "save_zip" =>
        /\ result.err = "none"
        /\ file.fmt = "zip"
        /\ \A k \in KeySet :
              (<<k, "json">> \in DOMAIN file.entries) # (<<k, "npyl">> \in DOMAIN file.entries)
        /\ Cardinality(DOMAIN file.entries) = 11
        /\ <<"params", "npyl">> \in DOMAIN file.entries
        /\ file.entries[<<"params", "npyl">>] = saved
        /\ <<"n_hidden", "json">> \in DOMAIN file.entries
        /\ file.entries[<<"n_hidden", "json">>] = [kind |-> "int", val |-> net.n_hidden]
        /\ <<"random_state", "json">> \in DOMAIN file.entries
        /\ json_load(file.entries[<<"random_state", "json">>]).val = result.args[1].val

\* C1: for any constructed model and any values of save's optional arguments,
\* defaults included, save then load completes without error and returns a
\* model whose parameter list has the original's length and values; so does
\* save_zip then GRU.load_zip.
C1_RoundTrip ==
    /\ result.op = "save_zip" => result.err = "none"
    /\ (/\ result.op \in {"load", "load_zip"}
        /\ ~foreign
        /\ result.args[1] = None)
          => /\ result.err = "none"
             /\ loaded # NoModel
             /\ Len(loaded.params) = Len(saved)
             /\ \A i \in 1..Len(saved) : param_value(loaded, i) = saved[i]

====
